---- MODULE Spec2Model ----
(***************************************************************************)
(* Model of the forecasting-and-scoring engine of DeepPredict (ARIMA       *)
(* version): the composite risk scorer and the prescription engine of      *)
(* Server/risk_analysis.py, and the cached HPI series / fitted model of    *)
(* Server/ts_forecast.py.                                                  *)
(*                                                                         *)
(* Units.  Floating-point quantities are kept as exact fixed-point         *)
(* integers:                                                               *)
(*   growth_rate, volatility   in units of 0.01   (0.04  -> 4)             *)
(*   location_factor           in units of 0.1    (0.9   -> 9)             *)
(*   current_price             in lakhs           (150   -> 150)           *)
(*   sentiment_score           in points          (25    -> 25)            *)
(*   every *_risk_score, *_numeric_risk and the final score                *)
(*                             in units of 0.01   (24.26 -> 2426)          *)
(*   final_raw                 in units of 0.001  (24.264 -> 24264)        *)
(* round(x, 2) is round-half-to-even on the exact value; the input sets    *)
(* below contain no exact tie, where binary representation error would     *)
(* decide the direction.                                                   *)
(***************************************************************************)
EXTENDS Integers, Sequences, FiniteSets, TLC

VARIABLES
    rpc,      \* position of the scoring caller: "call", "analyzed", "pcall", "prescribed"
    inp,      \* arguments of the analyze_risk call
    out,      \* what analyze_risk returned (or the exception it raised)
    pin,      \* arguments of the get_prescription call
    presc,    \* what get_prescription returned (or the exception it raised)
    has_arima,   \* _HAS_ARIMA: whether statsmodels could be imported
    hpi_series,  \* _hpi_series: the cached series (loaded = FALSE is None)
    model_fit,   \* _model_fit: the cached fitted model (fitted = FALSE is None)
    ret,         \* the last call on the forecast engine and what it returned
    lpc,         \* position of the thread inside load_hpi_and_fit: "idle", "snap", "fit"
    loads,       \* number of load calls started so far
    series_gen,  \* the load call that assigned the current _hpi_series (0: none)
    model_gen,   \* the load call that assigned the current _model_fit (0: none)
    rdpc,        \* position of the thread inside forecast_hpi / the summary
    rd           \* what the reading thread has read and computed so far

riskVars == <<rpc, inp, out, pin, presc>>

engineVars == <<has_arima, hpi_series, model_fit, ret>>

concVars == <<lpc, loads, series_gen, model_gen, rdpc, rd>>

vars == <<rpc, inp, out, pin, presc, has_arima, hpi_series, model_fit, ret, lpc, loads, series_gen, model_gen, rdpc, rd>>

----------------------------------------------------------------------------
(* Python values that reach the numeric parameters *)

Num(n) == [k |-> "num", v |-> n]
NoneV == [k |-> "none", v |-> 0]
StrV == [k |-> "str", v |-> 0]          \* a non-empty, non-numeric string such as "abc"

LabelNone == [k |-> "none", s |-> ""]
Label(s) == [k |-> "str", s |-> s]

\* float(x): the exception it raises, "none" when it converts
FloatRaises(x) ==
    IF x.k = "none" THEN "TypeError"
    ELSE IF x.k = "str" THEN "ValueError"
    ELSE "none"

\* x or d : Python's `or` returns d when x is falsy (None, 0, 0.0)
OrDefault(x, d) ==
    IF x.k = "none" \/ (x.k = "num" /\ x.v = 0) THEN Num(d) ELSE x

\* np.clip(x, lo, hi)
Clip(x, lo, hi) == IF x < lo THEN lo ELSE IF x > hi THEN hi ELSE x

\* round-half-to-even of n / d, for d > 0
RoundHalfEven(n, d) ==
    LET q == n \div d
        r == n % d
    IN  IF 2 * r > d \/ (2 * r = d /\ q % 2 = 1) THEN q + 1 ELSE q

\* s.strip().lower() on the labels the model passes
StripLower(s) ==
    CASE s = "Positive" -> "positive"
      [] s = "Neutral" -> "neutral"
      [] s = "Negative" -> "negative"
      [] s = " NEGATIVE " -> "negative"
      [] OTHER -> s

\* weights of the composite, in tenths
W_MARKET == 7
W_SENTIMENT == 2
W_PRICE == 1

\* tier thresholds, in hundredths of a point
LowBelow == 3000
ModerateBelow == 6000

\* the sentiment default of `sentiment_score or 50.0`
DefaultSentiment == 50

\* the price at which price risk saturates: (cp / 200.0) * 100.0
PriceDivisor == 200

Raised(e) ==
    [raised |-> e, score |-> 0, level |-> "", category |-> "", message |-> "",
     market_risk_score |-> 0, market_risk_level |-> 0,
     sentiment_score |-> 0, sentiment_numeric_risk |-> 0,
     sentiment_risk_level |-> 0, price_risk_score |-> 0, final_raw |-> 0]

NoResult == Raised("pending")

\* variant: the location adjustment of line 35 left out
MarketRiskScore_unadjusted(g, v, l) ==
    Clip(((v * 15) - (g * 8)) * 10, 0, 10000)

\* variant: the clip of line 38 left out
MarketRiskScore_unclipped(g, v, l) ==
    ((v * 15) - (g * 8)) * (12 - l)

\* market_risk_score, lines 28-38
MarketRiskScore(g, v, l) ==
    LET market_component10 == (v * 15) - (g * 8)         \* tenths of a point
        adjusted_market100 == market_component10 * (12 - l)
    IN  Clip(adjusted_market100, 0, 10000)

\* sentiment_numeric_risk, line 67 (s_score in points)
SentimentNumericRisk(s_score) == Clip(10000 - 100 * s_score, 0, 10000)

\* sentiment_risk_level, lines 56-61
SentimentRiskLevel(sent, s_score) ==
    IF sent = "positive" /\ s_score >= 60 THEN 1
    ELSE IF sent = "negative" \/ s_score < 40 THEN 3
    ELSE 2

\* price_risk_score, line 84
PriceRiskScore(cp) == Clip((cp * 10000) \div PriceDivisor, 0, 10000)

\* level / category / message from the final score, lines 107-118
LevelOf(score) ==
    IF score < LowBelow THEN "Low"
    ELSE IF score < ModerateBelow THEN "Moderate"
    ELSE "High"

CategoryOf(level) ==
    CASE level = "Low" -> "Stable Market"
      [] level = "Moderate" -> "Caution Advised"
      [] OTHER -> "High Risk"

MessageOf(level) ==
    CASE level = "Low" -> "Strong signals with low volatility. Good investment conditions."
      [] level = "Moderate" -> "Some mixed signals. Consider cautious investment."
      [] OTHER -> "Negative sentiment or high volatility. Avoid large investments."

\* float(sentiment_score or 50.0), line 52
SScore(sentiment_score) == OrDefault(sentiment_score, DefaultSentiment)

\* try: cp = float(current_price or 0.0) except Exception: cp = 0.0, lines 75-78
PriceOf(current_price) ==
    LET c == OrDefault(current_price, 0)
    IN  IF FloatRaises(c) = "none" THEN c.v ELSE 0

analyze_risk(current_price, growth_rate, volatility, sentiment_label, sentiment_score, location_factor) ==
    IF FloatRaises(growth_rate) # "none" THEN Raised(FloatRaises(growth_rate))
    ELSE IF FloatRaises(volatility) # "none" THEN Raised(FloatRaises(volatility))
    ELSE IF FloatRaises(location_factor) # "none"
        THEN Raised(FloatRaises(location_factor))
    ELSE IF FloatRaises(SScore(sentiment_score)) # "none"
        THEN Raised(FloatRaises(SScore(sentiment_score)))
    ELSE
    LET market_risk_score ==
            MarketRiskScore(growth_rate.v, volatility.v, location_factor.v)
        market_risk_level ==
            IF market_risk_score < LowBelow THEN 1
            ELSE IF market_risk_score < ModerateBelow THEN 2 ELSE 3
        sent == StripLower(IF sentiment_label.k = "none" \/ sentiment_label.s = ""
                           THEN "Neutral" ELSE sentiment_label.s)
        s_score == SScore(sentiment_score).v
        sentiment_numeric_risk == SentimentNumericRisk(s_score)
        cp == PriceOf(current_price)
        price_risk_score == PriceRiskScore(cp)
        final_numeric_raw ==
            market_risk_score * W_MARKET + sentiment_numeric_risk * W_SENTIMENT
            + price_risk_score * W_PRICE
        final_numeric_score == Clip(RoundHalfEven(final_numeric_raw, 10), 0, 10000)
        level == LevelOf(final_numeric_score)
    IN  [raised |-> "none", score |-> final_numeric_score, level |-> level,
         category |-> CategoryOf(level), message |-> MessageOf(level),
         market_risk_score |-> market_risk_score,
         market_risk_level |-> market_risk_level,
         sentiment_score |-> s_score,
         sentiment_numeric_risk |-> sentiment_numeric_risk,
         sentiment_risk_level |-> SentimentRiskLevel(sent, s_score),
         price_risk_score |-> price_risk_score, final_raw |-> final_numeric_raw]

PRaised(e) == [raised |-> e, action |-> "", roi_pct |-> 0]

NoPresc == PRaised("pending")

\* risk_score in hundredths of a point, growth_rate in units of 0.01, so that
\* roi_pct = round(growth_rate * 100.0, 2) is growth_rate.v whole percent
get_prescription(risk_score, growth_rate) ==
    IF growth_rate.k # "num" THEN PRaised("TypeError")
    ELSE
    LET roi_pct == RoundHalfEven(growth_rate.v * 100, 100)
    IN  IF risk_score.k # "num" THEN PRaised("TypeError")
        ELSE IF risk_score.v < LowBelow /\ roi_pct > 3
            THEN [raised |-> "none", action |-> "Buy", roi_pct |-> roi_pct]
        ELSE IF risk_score.v < ModerateBelow /\ roi_pct > 0
            THEN [raised |-> "none", action |-> "Hold", roi_pct |-> roi_pct]
        ELSE IF roi_pct < 0
            THEN [raised |-> "none", action |-> "Sell", roi_pct |-> roi_pct]
        ELSE [raised |-> "none", action |-> "Wait", roi_pct |-> roi_pct]

----------------------------------------------------------------------------
(* The forecast engine of ts_forecast.py.                                  *)
(* A timestamp is a month index (months since January of the first year    *)
(* of data); a quarter-end timestamp is the index of the quarter's last    *)
(* month.  HPI values are whole numbers.                                   *)

MaxRows == 2        \* rows of a source
MaxSteps == 2       \* forecast horizon

NaT == -1

ArimaOrder == <<1, 1, 1>>

Last(q) == q[Len(q)]

NoSeries == [loaded |-> FALSE, rows |-> <<>>]
Series(rows) == [loaded |-> TRUE, rows |-> rows]

NoModel == [fitted |-> FALSE, on |-> <<>>, order |-> <<>>]
Model(rows, order) == [fitted |-> TRUE, on |-> rows, order |-> order]

Vol(n, d) == [nan |-> FALSE, n |-> n, d |-> d]     \* volatility squared = n / d
VolNaN == [nan |-> TRUE, n |-> 0, d |-> 1]

NoRet ==
    [op |-> "none", steps |-> 0, raised |-> "none", value |-> FALSE,
     fit |-> "none", points |-> <<>>, has_conf |-> FALSE, conf |-> <<>>,
     growth |-> [n |-> 0, d |-> 1], volatility |-> Vol(0, 1), risk |-> "",
     has_forecast |-> FALSE]

\* the reading thread before it has read anything; a generation of -1 is a
\* global the call has not read
NoRd ==
    [op |-> "none", steps |-> 0, raised |-> "none", fitted |-> FALSE,
     model_gen |-> -1, value_gen |-> -1, date_gen |-> -1, hist_gen |-> -1,
     returns_gen |-> -1,
     values |-> <<>>, points |-> <<>>, has_forecast |-> FALSE, error |-> "none",
     growth |-> [n |-> 0, d |-> 1], volatility |-> [nan |-> FALSE, n |-> 0, d |-> 1],
     risk |-> ""]

\* no thread is inside a call
ConcStart ==
    /\ lpc = "idle"
    /\ loads = 0
    /\ series_gen = 0
    /\ model_gen = 0
    /\ rdpc = "idle"
    /\ rd = NoRd

EngineStart ==
    /\ has_arima = FALSE
    /\ hpi_series = NoSeries
    /\ model_fit = NoModel
    /\ ret = NoRet

(* ---- sources ---- *)

HpiValues == {10, 11}

\* a date cell: "compact" is month-year text such as Mar-17, "junk" is text
\* no parser reads as a date
\* the months the sources' dates fall in: two months of one quarter and the
\* first month of the next
SourceMonths == {0, 1, 3}

DateCells ==
    {[fmt |-> "compact", m |-> m] : m \in SourceMonths}
        \cup {[fmt |-> "junk", m |-> 0]}

Rows ==
    {r \in [date : DateCells, hpi : HpiValues] :
        r.date.fmt = "junk" => r.hpi = 10}

RowSeqs == UNION {[1..n -> Rows] : n \in 0..MaxRows}

Table(dc, vc, numeric, rows) ==
    [exists |-> TRUE, date_col |-> dc, value_col |-> vc,
     numeric |-> numeric, rows |-> rows]

OneRow == <<[date |-> [fmt |-> "compact", m |-> 0], hpi |-> 10]>>

Sources ==
    {Table("Date", "HPI", TRUE, rows) : rows \in RowSeqs} \cup
    {[exists |-> FALSE, date_col |-> "Date", value_col |-> "HPI",
      numeric |-> TRUE, rows |-> <<>>],
     Table("Month", "HPI", TRUE, OneRow),
     Table("Quarter", "ALL", TRUE, OneRow),
     Table("Date", "Index", TRUE, OneRow),
     Table("Date", "Index", TRUE, <<>>),
     Table("Date", "Index", FALSE, OneRow),
     Table("Date", "HPI", FALSE, OneRow)}

(* ---- load_hpi_and_fit ---- *)

\* lines 35-42
DateCol(src) ==
    IF src.date_col = "Quarter" THEN "Quarter"
    ELSE IF src.date_col = "Date" THEN "Date"
    ELSE "none"

\* lines 58-68; a column read from a file without rows has dtype object
HpiCol(src) ==
    IF src.value_col = "ALL" THEN "ALL"
    ELSE IF src.value_col = "HPI" THEN "HPI"
    ELSE IF src.numeric /\ Len(src.rows) >= 1 THEN src.value_col
    ELSE "none"

\* pd.to_datetime(..., format='%b-%y', errors='coerce'), line 46
StrictParse(cell) == IF cell.fmt = "compact" THEN cell.m ELSE NaT

\* pd.to_datetime(..., errors='coerce'), line 50: without a format, Mon-17
\* reads as a month and a day with no year; pandas completes the date from
\* year 1, which is out of the timestamp range, and coerces it to NaT, as it
\* does the text no parser reads
FlexParse(cell) == NaT

\* lines 46-52
ParseDates(rows) ==
    LET strict == [i \in 1..Len(rows) |-> StrictParse(rows[i].date)]
    IN  IF \E i \in 1..Len(rows) : strict[i] = NaT
        THEN [i \in 1..Len(rows) |-> FlexParse(rows[i].date)]
        ELSE strict

\* df.dropna(subset=[date_col]), line 53
DropNaT(rows) ==
    LET parsed == ParseDates(rows)
        dated == [i \in 1..Len(rows) |-> [t |-> parsed[i], v |-> rows[i].hpi]]
        Keep(e) == e.t # NaT
    IN  SelectSeq(dated, Keep)

\* df.sort_values(date_col), line 54: every ascending arrangement; the order
\* of rows with equal dates is the sorting algorithm's choice
SortValues(entries) ==
    LET n == Len(entries)
        perms == {f \in [1..n -> 1..n] : \A i, j \in 1..n : i # j => f[i] # f[j]}
        arranged == {[i \in 1..n |-> entries[f[i]]] : f \in perms}
    IN  {q \in arranged : \A i \in 1..(n - 1) : q[i].t <= q[i + 1].t}

\* to_period('Q').to_timestamp('Q'): the quarter-end of a timestamp
QuarterEndOf(t) == 3 * (t \div 3) + 2

\* line 74
SnapToQuarterEnd(entries) ==
    [i \in 1..Len(entries) |-> [t |-> QuarterEndOf(entries[i].t), v |-> entries[i].v]]

\* variant: a failed or skipped fit leaves the earlier model in place
FitModel_keep(previous, rows, available, fit_ok) ==
    IF available /\ fit_ok THEN Model(rows, ArimaOrder) ELSE previous

\* lines 80-90: the model after the fit attempt; fit_ok is whether
\* ARIMA(...).fit() returned
FitModel(previous, rows, available, fit_ok) ==
    IF available /\ fit_ok THEN Model(rows, ArimaOrder) ELSE NoModel

FitOutcome(available, fit_ok) ==
    IF ~available THEN "unavailable" ELSE IF fit_ok THEN "ok" ELSE "failed"

LoadRaised(e) == [NoRet EXCEPT !.op = "load", !.raised = e]

\* variant: the load clears the cache before it validates the source
FailedLoad_reset(e) ==
    /\ ret' = LoadRaised(e)
    /\ hpi_series' = NoSeries
    /\ model_fit' = NoModel

\* a raise at line 30, 42, 68 or 70: nothing has been assigned yet
FailedLoad(e) ==
    /\ ret' = LoadRaised(e)
    /\ UNCHANGED <<hpi_series, model_fit>>

load_hpi_and_fit ==
    \E src \in Sources, fit_ok \in (IF has_arima THEN BOOLEAN ELSE {FALSE}) :
        IF ~src.exists THEN FailedLoad("FileNotFoundError")
        ELSE IF DateCol(src) = "none" \/ HpiCol(src) = "none" THEN FailedLoad("KeyError")
        ELSE IF ~src.numeric THEN FailedLoad("ValueError")
        ELSE
            \E sorted \in SortValues(DropNaT(src.rows)) :
                /\ hpi_series' = Series(SnapToQuarterEnd(sorted))
                /\ model_fit' = FitModel(model_fit, hpi_series'.rows, has_arima, fit_ok)
                /\ ret' = [NoRet EXCEPT !.op = "load", !.value = TRUE,
                                        !.fit = FitOutcome(has_arima, fit_ok)]

Load ==
    /\ load_hpi_and_fit
    /\ UNCHANGED has_arima
    /\ UNCHANGED riskVars
    /\ UNCHANGED concVars

(* ---- forecast_hpi ---- *)

\* last_date + pd.offsets.QuarterEnd(), line 119
NextQuarterEnd(t) == IF t % 3 = 2 THEN t + 3 ELSE QuarterEndOf(t)

\* pd.date_range(start, periods=steps, freq='Q'), line 120
DateRange(start, steps) == [k \in 1..steps |-> start + 3 * (k - 1)]

\* res.predicted_mean of the fitted model, line 108: a fixed function of the
\* series the model was fitted on (the last value continued by the last
\* difference)
PredictedMean(model, steps) ==
    LET on == model.on
        last == IF Len(on) >= 1 THEN Last(on).v ELSE 0
        diff == IF Len(on) >= 2 THEN last - on[Len(on) - 1].v ELSE 0
    IN  [k \in 1..steps |-> last + k * diff]

\* res.conf_int(), line 109
ConfInt(model, steps) ==
    LET mean == PredictedMean(model, steps)
    IN  [k \in 1..steps |-> [lower |-> mean[k] - k, upper |-> mean[k] + k]]

FRaised(e) == [raised |-> e, points |-> <<>>, has_conf |-> FALSE, conf |-> <<>>]

forecast_hpi(series, model, steps) ==
    IF ~series.loaded THEN FRaised("RuntimeError")
    ELSE IF Len(series.rows) = 0 THEN FRaised("IndexError")
    ELSE
    LET values == IF model.fitted THEN PredictedMean(model, steps)
                  ELSE [k \in 1..steps |-> Last(series.rows).v]
        last_date == Last(series.rows).t
        forecast_index == DateRange(NextQuarterEnd(last_date), steps)
    IN  [raised |-> "none",
         points |-> [k \in 1..steps |-> [t |-> forecast_index[k], v |-> values[k]]],
         has_conf |-> model.fitted,
         conf |-> IF model.fitted THEN ConfInt(model, steps) ELSE <<>>]

Forecast ==
    /\ \E steps \in 1..MaxSteps :
          LET f == forecast_hpi(hpi_series, model_fit, steps)
          IN  ret' = [NoRet EXCEPT !.op = "forecast", !.steps = steps,
                                   !.raised = f.raised, !.points = f.points,
                                   !.has_conf = f.has_conf, !.conf = f.conf]
    /\ UNCHANGED <<has_arima, hpi_series, model_fit>>
    /\ UNCHANGED riskVars
    /\ UNCHANGED concVars

(* ---- get_market_forecast_summary ---- *)

\* _hpi_series.pct_change().dropna(), line 153: v[i] / v[i-1] - 1, where a
\* zero divisor gives inf, and 0 / 0 gives NaN, which is dropped
PctChange(rows) ==
    LET all == [i \in 1..(Len(rows) - 1) |->
                   IF rows[i].v # 0
                   THEN [k |-> "num", n |-> rows[i + 1].v - rows[i].v, d |-> rows[i].v]
                   ELSE IF rows[i + 1].v # 0 THEN [k |-> "inf", n |-> 1, d |-> 1]
                   ELSE [k |-> "nan", n |-> 0, d |-> 1]]
        Keep(r) == r.k # "nan"
    IN  SelectSeq(all, Keep)

RECURSIVE ProductOfDenominators(_)
ProductOfDenominators(rs) ==
    IF rs = <<>> THEN 1 ELSE Head(rs).d * ProductOfDenominators(Tail(rs))

RECURSIVE SumOver(_, _, _)
\* the sum of (n / d * D) ^ power over the returns
SumOver(rs, D, power) ==
    IF rs = <<>> THEN 0
    ELSE LET a == (Head(rs).n * D) \div Head(rs).d
         IN  (IF power = 2 THEN a * a ELSE a) + SumOver(Tail(rs), D, power)

\* returns.std(): the sample standard deviation (ddof = 1), as its square;
\* NaN for a single return and when a return is infinite
Std(returns) ==
    LET n == Len(returns)
        D == ProductOfDenominators(returns)
    IN  IF n < 2 \/ \E i \in 1..n : returns[i].k = "inf" THEN VolNaN
        ELSE Vol(n * SumOver(returns, D, 2)
                    - SumOver(returns, D, 1) * SumOver(returns, D, 1),
                 n * (n - 1) * D * D)

\* line 154
Volatility(returns) == IF Len(returns) > 0 THEN Std(returns) ELSE Vol(0, 1)

\* volatility < 0.02 : false for NaN
VolBelow2Pct(vol) == ~vol.nan /\ vol.n * 2500 < vol.d

\* lines 156-161, for a growth rate n / d with d > 0
RiskLabel(growth, vol) ==
    IF growth.n * 100 > 5 * growth.d /\ VolBelow2Pct(vol) THEN "Low"
    ELSE IF growth.n * 100 > (-2) * growth.d THEN "Moderate"
    ELSE "High"

SafeDefault ==
    [growth |-> [n |-> 0, d |-> 1], volatility |-> Vol(0, 1), risk |-> "Moderate",
     has_forecast |-> FALSE, points |-> <<>>]

get_market_forecast_summary(series, model, steps) ==
    IF ~series.loaded THEN SafeDefault
    ELSE
    LET f == forecast_hpi(series, model, steps)
    IN  IF f.raised # "none" THEN SafeDefault
        ELSE
        LET last_hist == Last(series.rows).v
            last_fore == Last(f.points).v
            growth_rate == IF last_hist # 0
                           THEN [n |-> last_fore - last_hist, d |-> last_hist]
                           ELSE [n |-> 0, d |-> 1]
            volatility == Volatility(PctChange(series.rows))
        IN  [growth |-> growth_rate, volatility |-> volatility,
             risk |-> RiskLabel(growth_rate, volatility),
             has_forecast |-> TRUE, points |-> f.points]

Summarize ==
    /\ \E steps \in 1..MaxSteps :
          LET m == get_market_forecast_summary(hpi_series, model_fit, steps)
          IN  ret' = [NoRet EXCEPT !.op = "summarize", !.steps = steps,
                                   !.growth = m.growth, !.volatility = m.volatility,
                                   !.risk = m.risk, !.has_forecast = m.has_forecast,
                                   !.points = m.points]
    /\ UNCHANGED <<has_arima, hpi_series, model_fit>>
    /\ UNCHANGED riskVars
    /\ UNCHANGED concVars

----------------------------------------------------------------------------
(* The calls the scoring specification makes *)

PriceVals == {NoneV, StrV} \cup {Num(n) : n \in {-20, 0, 40, 150, 200, 300}}
GrowthVals == {NoneV, StrV} \cup {Num(n) : n \in {-3, 1, 6, 50}}
VolVals == {NoneV} \cup {Num(n) : n \in {0, 1, 4, 200}}
LabelVals == {LabelNone} \cup
             {Label(s) : s \in {"Positive", "Neutral", "Negative", " NEGATIVE "}}
SentimentVals == {NoneV, StrV} \cup {Num(n) : n \in {0, 1, 25, 50, 80, 100}}
LocationVals == {Num(n) : n \in {8, 9, 11, 12, 14}}

RiskInputs ==
    [current_price : PriceVals, growth_rate : GrowthVals, volatility : VolVals,
     sentiment_label : LabelVals, sentiment_score : SentimentVals,
     location_factor : LocationVals]

NoInput ==
    [current_price |-> NoneV, growth_rate |-> NoneV, volatility |-> NoneV,
     sentiment_label |-> LabelNone, sentiment_score |-> NoneV,
     location_factor |-> NoneV]

PrescInputs ==
    [risk : {NoneV, StrV} \cup {Num(n) : n \in {1000, 2999, 3000, 7000}},
     growth : {NoneV, StrV} \cup {Num(n) : n \in {-1, 0, 3, 5}}]

NoPIn == [risk |-> NoneV, growth |-> NoneV]

Analyze(i) ==
    analyze_risk(i.current_price, i.growth_rate, i.volatility,
                 i.sentiment_label, i.sentiment_score, i.location_factor)

InitRisk ==
    /\ EngineStart
    /\ ConcStart
    /\ presc = NoPresc
    /\ out = NoResult
    /\ \/ rpc = "call" /\ inp \in RiskInputs /\ pin = NoPIn
       \/ rpc = "pcall" /\ inp = NoInput /\ pin \in PrescInputs

\* a call analyze_risk(...)
AnalyzeRisk ==
    /\ rpc = "call"
    /\ out' = Analyze(inp)
    /\ rpc' = "analyzed"
    /\ UNCHANGED <<inp, pin, presc>>
    /\ UNCHANGED engineVars
    /\ UNCHANGED concVars

\* the pipeline's get_prescription(result["score"], growth_rate)
Prescribe ==
    /\ rpc = "analyzed"
    /\ out.raised = "none"
    /\ pin' = [risk |-> Num(out.score), growth |-> inp.growth_rate]
    /\ presc' = get_prescription(pin'.risk, pin'.growth)
    /\ rpc' = "prescribed"
    /\ UNCHANGED <<inp, out>>
    /\ UNCHANGED engineVars
    /\ UNCHANGED concVars

\* a direct call get_prescription(risk_score, growth_rate)
PrescribeDirect ==
    /\ rpc = "pcall"
    /\ presc' = get_prescription(pin.risk, pin.growth)
    /\ rpc' = "prescribed"
    /\ UNCHANGED <<inp, out, pin>>
    /\ UNCHANGED engineVars
    /\ UNCHANGED concVars

\* a further call with a higher volatility and everything else as before
ReanalyzeVolatility ==
    /\ rpc = "analyzed"
    /\ inp.volatility.k = "num"
    /\ \E v \in VolVals :
          /\ v.k = "num" /\ v.v > inp.volatility.v
          /\ inp' = [inp EXCEPT !.volatility = v]
    /\ out' = Analyze(inp')
    /\ UNCHANGED <<rpc, pin, presc>>
    /\ UNCHANGED engineVars
    /\ UNCHANGED concVars

\* a further call with a higher growth rate and everything else as before
ReanalyzeGrowth ==
    /\ rpc = "analyzed"
    /\ inp.growth_rate.k = "num"
    /\ \E g \in GrowthVals :
          /\ g.k = "num" /\ g.v > inp.growth_rate.v
          /\ inp' = [inp EXCEPT !.growth_rate = g]
    /\ out' = Analyze(inp')
    /\ UNCHANGED <<rpc, pin, presc>>
    /\ UNCHANGED engineVars
    /\ UNCHANGED concVars

NextRisk ==
    \/ AnalyzeRisk
    \/ Prescribe
    \/ PrescribeDirect
    \/ ReanalyzeVolatility
    \/ ReanalyzeGrowth

SpecRisk == InitRisk /\ [][NextRisk]_vars

\* the forecast engine on its own: the scoring caller stays idle
Init ==
    /\ ConcStart
    /\ has_arima \in BOOLEAN
    /\ hpi_series = NoSeries
    /\ model_fit = NoModel
    /\ ret = NoRet
    /\ rpc = "idle" /\ inp = NoInput /\ out = NoResult
    /\ pin = NoPIn /\ presc = NoPresc

Next ==
    \/ Load
    \/ Forecast
    \/ Summarize

Spec == Init /\ [][Next]_vars

----------------------------------------------------------------------------
(* One thread inside load_hpi_and_fit and one thread inside forecast_hpi   *)
(* or get_market_forecast_summary, with no lock: a step is what a thread   *)
(* does between two accesses to the globals _hpi_series and _model_fit.    *)

MaxLoads == 2       \* load calls in a behaviour

CompactRow(m, v) == [date |-> [fmt |-> "compact", m |-> m], hpi |-> v]

\* the sources the concurrent loads read
ConcSources ==
    {s \in Sources :
        \/ ~s.exists
        \/ s.date_col = "Month"
        \/ s.rows = <<CompactRow(0, 10)>>
        \/ s.rows = <<CompactRow(0, 10), CompactRow(3, 11)>>
        \/ s.rows = <<CompactRow(3, 11), CompactRow(1, 10)>>
        \/ s.rows = <<[date |-> [fmt |-> "junk", m |-> 0], hpi |-> 10]>>}

\* lines 26-70: the source is read and checked without touching the globals;
\* a raise ends the call, otherwise line 70 assigns the sorted series, whose
\* index is not yet snapped to quarter-ends
CLoadAssignSeries ==
    /\ lpc = "idle"
    /\ loads < MaxLoads
    /\ loads' = loads + 1
    /\ \E src \in ConcSources :
          IF ~src.exists \/ DateCol(src) = "none" \/ HpiCol(src) = "none" \/ ~src.numeric
          THEN /\ ret' = LoadRaised(IF ~src.exists THEN "FileNotFoundError"
                                    ELSE IF DateCol(src) = "none" \/ HpiCol(src) = "none"
                                    THEN "KeyError"
                                    ELSE "ValueError")
               /\ UNCHANGED <<hpi_series, series_gen, lpc>>
          ELSE \E sorted \in SortValues(DropNaT(src.rows)) :
                  /\ hpi_series' = Series(sorted)
                  /\ series_gen' = loads'
                  /\ lpc' = "snap"
                  /\ ret' = [NoRet EXCEPT !.op = "load", !.raised = "running"]
    /\ UNCHANGED <<has_arima, model_fit, model_gen, rdpc, rd>>
    /\ UNCHANGED riskVars

\* line 74: the index of the cached series is replaced in place
CLoadSnap ==
    /\ lpc = "snap"
    /\ hpi_series' = Series(SnapToQuarterEnd(hpi_series.rows))
    /\ lpc' = "fit"
    /\ UNCHANGED <<has_arima, model_fit, ret, loads, series_gen, model_gen, rdpc, rd>>
    /\ UNCHANGED riskVars

\* lines 80-93: the fit on the cached series, the assignment of _model_fit
\* (line 83, 86 or 89) and the return
CLoadFit ==
    /\ lpc = "fit"
    /\ \E fit_ok \in (IF has_arima THEN BOOLEAN ELSE {FALSE}) :
          /\ model_fit' = FitModel(model_fit, hpi_series.rows, has_arima, fit_ok)
          /\ ret' = [NoRet EXCEPT !.op = "load", !.value = TRUE,
                                  !.fit = FitOutcome(has_arima, fit_ok)]
    /\ model_gen' = series_gen
    /\ lpc' = "idle"
    /\ UNCHANGED <<has_arima, hpi_series, loads, series_gen, rdpc, rd>>
    /\ UNCHANGED riskVars

\* an exception in the reading thread: forecast_hpi lets it out, the summary
\* catches it (line 165) and returns the safe default
RdFails(r, e) ==
    IF r.op = "summarize"
    THEN [r EXCEPT !.error = e, !.risk = "Moderate", !.has_forecast = FALSE,
                   !.points = <<>>]
    ELSE [r EXCEPT !.error = e, !.raised = e]

\* lines 143 and 103: is a series cached at all
CReadBegin ==
    /\ rdpc \in {"idle", "done"}
    /\ \E op \in {"forecast", "summarize"}, steps \in 1..MaxSteps :
          LET r == [NoRd EXCEPT !.op = op, !.steps = steps]
          IN  IF hpi_series.loaded
              THEN rd' = r /\ rdpc' = "check_model"
              ELSE /\ rdpc' = "done"
                   /\ rd' = IF op = "summarize" THEN [r EXCEPT !.risk = "Moderate"]
                            ELSE RdFails(r, "RuntimeError")
    /\ UNCHANGED <<has_arima, hpi_series, model_fit, ret, lpc, loads, series_gen, model_gen>>
    /\ UNCHANGED riskVars

\* line 106: `if _model_fit is not None`
CReadCheckModel ==
    /\ rdpc = "check_model"
    /\ rd' = [rd EXCEPT !.fitted = model_fit.fitted, !.model_gen = model_gen]
    /\ rdpc' = IF model_fit.fitted THEN "get_forecast" ELSE "last_value"
    /\ UNCHANGED <<has_arima, hpi_series, model_fit, ret, lpc, loads, series_gen, model_gen>>
    /\ UNCHANGED riskVars

\* lines 107-109: _model_fit is read again for get_forecast
CReadGetForecast ==
    /\ rdpc = "get_forecast"
    /\ IF model_fit.fitted
       THEN /\ rd' = [rd EXCEPT !.values = PredictedMean(model_fit, rd.steps),
                                !.model_gen = model_gen]
            /\ rdpc' = "last_date"
       ELSE /\ rd' = RdFails(rd, "AttributeError")
            /\ rdpc' = "done"
    /\ UNCHANGED <<has_arima, hpi_series, model_fit, ret, lpc, loads, series_gen, model_gen>>
    /\ UNCHANGED riskVars

\* lines 111-113: the naive forecast from the last value of the cached series
CReadLastValue ==
    /\ rdpc = "last_value"
    /\ IF hpi_series.rows # <<>>
       THEN /\ rd' = [rd EXCEPT !.values = [k \in 1..rd.steps |-> Last(hpi_series.rows).v],
                                !.value_gen = series_gen]
            /\ rdpc' = "last_date"
       ELSE /\ rd' = RdFails(rd, "IndexError")
            /\ rdpc' = "done"
    /\ UNCHANGED <<has_arima, hpi_series, model_fit, ret, lpc, loads, series_gen, model_gen>>
    /\ UNCHANGED riskVars

\* lines 116-132: the forecast index from the last timestamp of the cached
\* series
CReadLastDate ==
    /\ rdpc = "last_date"
    /\ IF hpi_series.rows # <<>>
       THEN LET forecast_index ==
                    DateRange(NextQuarterEnd(Last(hpi_series.rows).t), rd.steps)
            IN  /\ rd' = [rd EXCEPT !.points = [k \in 1..rd.steps |->
                                        [t |-> forecast_index[k], v |-> rd.values[k]]],
                                    !.date_gen = series_gen, !.has_forecast = TRUE]
                /\ rdpc' = IF rd.op = "summarize" THEN "last_hist" ELSE "done"
       ELSE /\ rd' = RdFails(rd, "IndexError")
            /\ rdpc' = "done"
    /\ UNCHANGED <<has_arima, hpi_series, model_fit, ret, lpc, loads, series_gen, model_gen>>
    /\ UNCHANGED riskVars

\* lines 149-151: the summary reads the cached series for the last historical
\* value
CReadLastHist ==
    /\ rdpc = "last_hist"
    /\ IF hpi_series.rows # <<>>
       THEN LET last_hist == Last(hpi_series.rows).v
                last_fore == Last(rd.points).v
                growth_rate == IF last_hist # 0
                               THEN [n |-> last_fore - last_hist, d |-> last_hist]
                               ELSE [n |-> 0, d |-> 1]
            IN  /\ rd' = [rd EXCEPT !.growth = growth_rate, !.hist_gen = series_gen]
                /\ rdpc' = "returns"
       ELSE /\ rd' = RdFails(rd, "IndexError")
            /\ rdpc' = "done"
    /\ UNCHANGED <<has_arima, hpi_series, model_fit, ret, lpc, loads, series_gen, model_gen>>
    /\ UNCHANGED riskVars

\* lines 153-163: the summary reads the cached series again for the
\* percentage changes
CReadReturns ==
    /\ rdpc = "returns"
    /\ LET volatility == Volatility(PctChange(hpi_series.rows))
       IN  rd' = [rd EXCEPT !.volatility = volatility,
                            !.risk = RiskLabel(rd.growth, volatility),
                            !.returns_gen = series_gen]
    /\ rdpc' = "done"
    /\ UNCHANGED <<has_arima, hpi_series, model_fit, ret, lpc, loads, series_gen, model_gen>>
    /\ UNCHANGED riskVars

NextConc ==
    \/ CLoadAssignSeries
    \/ CLoadSnap
    \/ CLoadFit
    \/ CReadBegin
    \/ CReadCheckModel
    \/ CReadGetForecast
    \/ CReadLastValue
    \/ CReadLastDate
    \/ CReadLastHist
    \/ CReadReturns

SpecConc == Init /\ [][NextConc]_vars

----------------------------------------------------------------------------
(* Properties of the scorer and the prescription engine (under SpecRisk) *)

Returned == rpc \in {"analyzed", "prescribed"} /\ out.raised = "none"

ScenarioB ==
    [current_price |-> Num(150), growth_rate |-> Num(-3), volatility |-> Num(4),
     sentiment_label |-> Label("Negative"), sentiment_score |-> Num(25),
     location_factor |-> Num(9)]

\* C1 as stated: Scenario B scores at least 60 and is tiered "High", and the
\* prescription for that score with growth -0.03 is "Sell".
C1_ScenarioB_High ==
    (rpc \in {"analyzed", "prescribed"} /\ inp = ScenarioB) =>
        /\ out.raised = "none"
        /\ out.score >= 6000
        /\ out.level = "High"
        /\ rpc = "prescribed" => presc.action = "Sell"

\* C1 amended: Scenario B scores exactly 24.26 (market 2.52, sentiment 75,
\* price 75), which is below 30 and tiered "Low"; the prescription for that
\* score with growth -0.03 is "Sell".
C1_ScenarioB_Low ==
    (rpc \in {"analyzed", "prescribed"} /\ inp = ScenarioB) =>
        /\ out.raised = "none"
        /\ out.market_risk_score = 252
        /\ out.sentiment_numeric_risk = 7500
        /\ out.price_risk_score = 7500
        /\ out.score = 2426
        /\ out.level = "Low"
        /\ rpc = "prescribed" =>
              presc.raised = "none" /\ presc.action = "Sell" /\ presc.roi_pct = -3

C1_Witness ==
    /\ rpc = "prescribed"
    /\ inp = ScenarioB
    /\ pin = [risk |-> Num(out.score), growth |-> Num(-3)]
    /\ presc.action = "Sell"

\* C2 as stated: for every supplied sentiment_score in [0,100], endpoints
\* included, and every label, debug.sentiment_numeric_risk is exactly
\* 100 - sentiment_score; 50.0 stands in only for an absent score.
C2_SentimentRiskExact ==
    (Returned /\ inp.sentiment_score.k = "num"
              /\ inp.sentiment_score.v \in 0..100) =>
        out.sentiment_numeric_risk = 100 * (100 - inp.sentiment_score.v)

\* C3 as stated: with price, label, sentiment score and location factor held
\* fixed (location factors above 1.2 included), a call with a higher
\* volatility never scores lower, and a call with a higher growth rate never
\* scores higher.
C3_MonotoneInVolatilityAndGrowth ==
    [][(/\ rpc = "analyzed" /\ rpc' = "analyzed"
        /\ out.raised = "none" /\ out'.raised = "none"
        /\ inp'.current_price = inp.current_price
        /\ inp'.sentiment_label = inp.sentiment_label
        /\ inp'.sentiment_score = inp.sentiment_score
        /\ inp'.location_factor = inp.location_factor)
       => /\ (inp'.growth_rate = inp.growth_rate
               /\ inp'.volatility.v >= inp.volatility.v)
                  => out'.score >= out.score
          /\ (inp'.volatility = inp.volatility
               /\ inp'.growth_rate.v >= inp.growth_rate.v)
                  => out'.score <= out.score]_vars

\* C4 as stated: both functions return a result for every input, None and
\* non-numeric values included: a malformed price counts as 0.0, a malformed
\* sentiment score as 50.0, a malformed risk score or growth rate as 0.
C4_Total ==
    /\ rpc \in {"analyzed", "prescribed"} /\ inp # NoInput =>
          /\ out.raised = "none"
          /\ inp.current_price.k # "num" => out.price_risk_score = 0
          /\ inp.sentiment_score.k # "num" => out.sentiment_score = 50
    /\ rpc = "prescribed" => presc.raised = "none"

\* C5: for numeric inputs the market, sentiment and price sub-scores and the
\* final score lie in [0,100], and the level is "Low" exactly when
\* score < 30, "Moderate" exactly when 30 <= score < 60 and "High" exactly
\* when score >= 60.
C5_BoundedAndTiered ==
    Returned =>
        /\ out.market_risk_score \in 0..10000
        /\ out.sentiment_numeric_risk \in 0..10000
        /\ out.price_risk_score \in 0..10000
        /\ out.score \in 0..10000
        /\ out.level \in {"Low", "Moderate", "High"}
        /\ out.level = "Low" <=> out.score < 3000
        /\ out.level = "Moderate" <=> (3000 <= out.score /\ out.score < 6000)
        /\ out.level = "High" <=> out.score >= 6000

\* a call whose market component (300 - 8g) * 0.4 and price component 150
\* both exceed 100 before their clips, and whose score 99.8 is tiered "High"
C5_Witness ==
    /\ Returned
    /\ inp.volatility = Num(200) /\ inp.location_factor = Num(8)
    /\ inp.current_price = Num(300) /\ inp.sentiment_score = Num(1)
    /\ out.market_risk_score = 10000
    /\ out.price_risk_score = 10000
    /\ out.score = 9980
    /\ out.level = "High"

----------------------------------------------------------------------------
(* Properties of the forecast engine (under Spec) *)

\* C6 as stated: after any load that returned, whatever rows the source had
\* (all rows dropped as unparseable included), forecast(steps) returns exactly
\* `steps` points, one quarter apart, the first at the quarter-end following
\* the last historical timestamp.
C6_ForecastShape ==
    (ret.op = "forecast" /\ hpi_series.loaded) =>
        /\ ret.raised = "none"
        /\ Len(ret.points) = ret.steps
        /\ \A k \in 1..(Len(ret.points) - 1) :
              ret.points[k + 1].t = ret.points[k].t + 3
        /\ ret.points[1].t % 3 = 2
        /\ ret.points[1].t = Last(hpi_series.rows).t + 3

\* C7: a load whose fit is unavailable or fails does not raise and returns
\* True, and leaves no model at all, whatever model an earlier load had
\* fitted; from then until the next load every forecast repeats the last
\* value of the current series at every point and carries no confidence
\* bounds.
C7_DegradedOnFailedFit ==
    [][/\ (ret'.op = "load" /\ ret'.fit \in {"failed", "unavailable"}) =>
            /\ ret'.raised = "none"
            /\ ret'.value = TRUE
            /\ model_fit' = NoModel
       /\ (~model_fit.fitted /\ hpi_series.loaded /\ ret'.op = "forecast") =>
            /\ model_fit' = NoModel
            /\ hpi_series' = hpi_series
            /\ ret'.has_conf = FALSE /\ ret'.conf = <<>>
            /\ hpi_series.rows # <<>> =>
                 /\ ret'.raised = "none"
                 /\ Len(ret'.points) = ret'.steps
                 /\ \A k \in 1..Len(ret'.points) :
                       ret'.points[k].v = Last(hpi_series.rows).v]_vars

\* statsmodels is there, the fit of the current two-point series failed, and
\* a two-step forecast has repeated its last value
C7_Witness ==
    /\ has_arima
    /\ hpi_series.loaded /\ Len(hpi_series.rows) = 2
    /\ hpi_series.rows[1].v # hpi_series.rows[2].v
    /\ model_fit = NoModel
    /\ ret.op = "forecast" /\ ret.steps = 2 /\ ret.raised = "none"
    /\ ret.points[1].v = hpi_series.rows[2].v
    /\ ret.points[2].v = hpi_series.rows[2].v
    /\ ~ret.has_conf

\* C8: the cached series and model change only in a load that passes the
\* source and schema checks: a load that raises for a missing source
\* (FileNotFoundError) or a bad schema (KeyError) leaves both as they were,
\* forecast and summarize leave both as they were, so Fitted and Degraded
\* alternate only in a load, and a summarize that follows a summarize with
\* the same steps returns the same output.
C8_CacheChangesOnlyInValidLoad ==
    [][/\ (ret'.op = "load" /\ ret'.raised \in {"FileNotFoundError", "KeyError"}) =>
            (hpi_series' = hpi_series /\ model_fit' = model_fit)
       /\ ret'.op \in {"forecast", "summarize"} =>
            (hpi_series' = hpi_series /\ model_fit' = model_fit)
       /\ (hpi_series' # hpi_series \/ model_fit' # model_fit) =>
            (ret'.op = "load" /\ ret'.raised = "none")
       /\ model_fit'.fitted # model_fit.fitted =>
            (ret'.op = "load" /\ ret'.raised = "none")
       /\ (ret.op = "summarize" /\ ret'.op = "summarize" /\ ret'.steps = ret.steps) =>
            ret' = ret]_vars

\* a load has just failed on the schema while a fitted series is cached
C8_Witness ==
    /\ ret.op = "load" /\ ret.raised = "KeyError"
    /\ hpi_series.loaded /\ Len(hpi_series.rows) = 2
    /\ model_fit.fitted /\ model_fit.on = hpi_series.rows

\* C9 as stated: after every successful load the cached series has strictly
\* increasing timestamps, hence no duplicates and at most one value per
\* quarter, also when source rows fall in the same quarter.
C9_StrictlyIncreasing ==
    hpi_series.loaded =>
        \A i \in 1..(Len(hpi_series.rows) - 1) :
            hpi_series.rows[i].t < hpi_series.rows[i + 1].t

\* C10 as stated: summarize returns a volatility that is a non-negative
\* number, and exactly 0.0 when the series has 1 point or 2 points.
C10_VolatilityZeroBelowTwoChanges ==
    (ret.op = "summarize" /\ hpi_series.loaded) =>
        /\ ~ret.volatility.nan
        /\ ret.volatility.n >= 0 /\ ret.volatility.d > 0
        /\ Len(hpi_series.rows) <= 2 => ret.volatility.n = 0

----------------------------------------------------------------------------
(* Properties of the unlocked engine (under SpecConc) *)

\* the loads whose model and series a read has used: the model counts when
\* the read forecast with it, the series for each value taken from it
GensRead(r) ==
    (IF r.fitted THEN {r.model_gen} ELSE {}) \cup ({r.value_gen, r.date_gen, r.hist_gen, r.returns_gen} \ {-1})

\* C11 as stated: when a load runs concurrently with a forecast or a summary,
\* in every interleaving the model the reader forecasts with and the series
\* it takes the last value and the last timestamp from belong to the same
\* load.
C11_ReaderSeesOneLoad ==
    (rdpc = "done" /\ rd.has_forecast) =>
        Cardinality(GensRead(rd)) = 1

====
